---- MODULE Spec2Model ----
(***************************************************************************)
(* A model of package haveibeenpwned (src/haveibeenpwned.go): the four     *)
(* lookup operations BreachedAccount, Breaches, Breach and PasteAccount,   *)
(* and callService, the request/response routine they share.               *)
(*                                                                         *)
(* One call is in progress at a time.  A call goes through three steps:    *)
(* the operation is entered and callService builds and issues the GET      *)
(* (pc = "sent"), the transport answers client.Do (pc = "responded"), and  *)
(* the operation classifies the answer, reads and decodes the body and     *)
(* returns or panics (pc = "done").                                        *)
(*                                                                         *)
(* Strings that are escaped or parsed are sequences of atoms: an atom is   *)
(* either a run of characters that net/url leaves alone ("adobe.com") or   *)
(* one character it must escape ("&", " ").                                *)
(***************************************************************************)
EXTENDS Integers, Sequences, FiniteSets, TLC

VARIABLES env, pc, call, sent, net, closed, ret

vars == <<env, pc, call, sent, net, closed, ret>>

(* ------------------------------ bounds ------------------------------- *)

MaxFilterLen == 1
MaxMembers == 2
MaxElems == 2

SeqsUpTo(S, n) == UNION {[1..k -> S] : k \in 0..n}

(* ----------------------------- constants ----------------------------- *)

API == "https://haveibeenpwned.com/api/v3/"

StatusOK == 200
StatusBadRequest == 400
StatusUnauthorized == 401
StatusNotFound == 404
StatusTooManyRequests == 429
StatusInternalServerError == 500
StatusFound == 302

NoErr == "nil"
ErrInvalidFormat == "the account does not comply with an acceptable format"
\* the source writes the dash of this message as U+2014
ErrRateLimited == "too many requests - the rate limit has been exceeded"
ErrUnauthorized == "valid header hibp-api-key required"
\* errors of the libraries the package calls, passed on unchanged
ErrTransport == "net/http: transport error"
ErrRedirect == "net/http: stopped after 10 redirects"
ErrRead == "ioutil.ReadAll: unexpected EOF"
ErrSyntax == "json: SyntaxError"
ErrType == "json: UnmarshalTypeError"

(* ---------------------------- data model ----------------------------- *)

\* The string field and the integer field of each record type that the
\* model follows; the other fields decode the same way.  PwnCount names
\* no field of PasteModel, EmailCount none of BreachModel.
BreachFields == [str |-> {"Title"}, int |-> {"PwnCount"}]
PasteFields == [str |-> {"Title"}, int |-> {"EmailCount"}]

BreachModel == [Title |-> "", PwnCount |-> 0]
PasteModel == [Title |-> "", EmailCount |-> 0]

(* ------------------------------ inputs ------------------------------- *)

ApiKeys == {"key-1", "key-2"}
Accounts == {"test@example.com", "NonexistentBreach"}
FilterAtoms == {"adobe.com", "&"}
Filters == SeqsUpTo(FilterAtoms, MaxFilterLen)

JStr == [kind |-> "string", s |-> "Adobe", n |-> 0]
JNum == [kind |-> "number", s |-> "", n |-> 152445165]
JsonKeys == {"Title", "PwnCount", "EmailCount"}
Members == [key : JsonKeys, val : {JStr, JNum}]
Objects == SeqsUpTo(Members, MaxMembers)
\* the objects inside an array carry at most one member each
Elements == SeqsUpTo(Members, 1)

JBody(k, m, e) == [kind |-> k, members |-> m, elems |-> e]
Bodies ==
    {JBody(k, <<>>, <<>>) : k \in {"invalid", "null", "number", "readerr"}}
    \cup {JBody("object", m, <<>>) : m \in Objects}
    \cup {JBody("array", <<>>, e) : e \in SeqsUpTo(Elements, MaxElems)}

Statuses == {StatusOK, StatusBadRequest, StatusUnauthorized, StatusNotFound,
             StatusTooManyRequests, StatusInternalServerError}

NoBody == JBody("null", <<>>, <<>>)
NoNet == [res |-> "nil", status |-> 0, body |-> NoBody, err |-> NoErr]
NoCall == [op |-> "none", account |-> "", domainFilter |-> <<>>,
           truncate |-> FALSE, unverified |-> FALSE]
NoRet == [outcome |-> "none", list |-> <<>>, record |-> BreachModel, err |-> NoErr]

(* ------------------- callService: building the request --------------- *)

\* net/url QueryEscape, atom by atom: "&" and " " are escaped, every other
\* atom is left as it is.
EscapeAtom(a) == IF a = "&" THEN "%26" ELSE IF a = " " THEN "+" ELSE a
QueryEscape(s) == [i \in 1..Len(s) |-> EscapeAtom(s[i])]

\* url.Values: a map from a key to the list of its values.
EmptyValues == [k \in {} |-> <<>>]
Add(v, k, val) ==
    IF k \in DOMAIN v THEN [v EXCEPT ![k] = Append(@, val)]
    ELSE v @@ (k :> <<val>>)

\* The parameters callService adds, in the order of its three tests.
DomainParam(v, domainFilter) ==
    IF domainFilter # <<>> THEN Add(v, "domain", domainFilter) ELSE v
TruncateParamFlipped(v, truncate) ==
    IF truncate = TRUE THEN Add(v, "truncateResponse", <<"true">>) ELSE v
TruncateParam(v, truncate) ==
    IF truncate = FALSE THEN Add(v, "truncateResponse", <<"false">>) ELSE v
UnverifiedParam(v, unverified) ==
    IF unverified THEN Add(v, "includeUnverified", <<"true">>) ELSE v
Parameters(domainFilter, truncate, unverified) ==
    UnverifiedParam(TruncateParam(DomainParam(EmptyValues, domainFilter),
                                  truncate), unverified)

\* url.Values.Encode: the keys in sorted order, each value as key=value with
\* the value escaped, joined by "&".
KeyOrder == <<"domain", "includeUnverified", "truncateResponse">>

RECURSIVE Join(_, _)
Join(parts, sep) ==
    IF parts = <<>> THEN <<>>
    ELSE IF Len(parts) = 1 THEN parts[1]
    ELSE parts[1] \o <<sep>> \o Join(Tail(parts), sep)

RECURSIVE PairsFrom(_, _)
PairsFrom(v, keys) ==
    IF keys = <<>> THEN <<>>
    ELSE LET k == Head(keys)
             here == IF k \in DOMAIN v
                     THEN [i \in 1..Len(v[k]) |-> <<k, "=">> \o QueryEscape(v[k][i])]
                     ELSE <<>>
         IN here \o PairsFrom(v, Tail(keys))

Encode(v) == Join(PairsFrom(v, KeyOrder), "&")

\* The request callService hands to client.Do.
Request(service, account, domainFilter, truncate, unverified) ==
    [method |-> "GET", base |-> API, service |-> service, account |-> account,
     rawQuery |-> Encode(Parameters(domainFilter, truncate, unverified)),
     userAgent |-> "Go/1.15", apiKey |-> env]

\* callService up to client.Do: the request is built and issued.
callServiceSend(service, account, domainFilter, truncate, unverified) ==
    /\ sent' = Append(sent, Request(service, account, domainFilter, truncate, unverified))
    /\ pc' = "sent"
    /\ UNCHANGED <<env, net, closed, ret>>

(* -------------------- the query as the service reads it -------------- *)

UnescapeAtom(a) == IF a = "%26" THEN "&" ELSE IF a = "+" THEN " " ELSE a
QueryUnescape(s) == [i \in 1..Len(s) |-> UnescapeAtom(s[i])]

Index(s, a) ==
    IF \E i \in 1..Len(s) : s[i] = a
    THEN CHOOSE i \in 1..Len(s) : s[i] = a /\ \A j \in 1..(i - 1) : s[j] # a
    ELSE 0

RECURSIVE Split(_, _)
Split(s, sep) ==
    LET i == Index(s, sep) IN
    IF i = 0 THEN <<s>>
    ELSE <<SubSeq(s, 1, i - 1)>> \o Split(SubSeq(s, i + 1, Len(s)), sep)

PieceKey(p) ==
    LET i == Index(p, "=") IN IF i = 0 THEN p ELSE SubSeq(p, 1, i - 1)
PieceValue(p) ==
    LET i == Index(p, "=") IN
    IF i = 0 THEN <<>> ELSE QueryUnescape(SubSeq(p, i + 1, Len(p)))

RECURSIVE ValuesOf(_, _)
ValuesOf(pieces, k) ==
    IF pieces = <<>> THEN <<>>
    ELSE (IF Head(pieces) # <<>> /\ PieceKey(Head(pieces)) = k
          THEN <<PieceValue(Head(pieces))>> ELSE <<>>)
         \o ValuesOf(Tail(pieces), k)

\* url.ParseQuery: each key of the raw query with the list of its values.
ParseQuery(raw) ==
    LET pieces == Split(raw, "&")
        keys == {PieceKey(pieces[i]) : i \in {j \in 1..Len(pieces) : pieces[j] # <<>>}}
    IN [k \in keys |-> ValuesOf(pieces, k)]

Has(q, key) == <<key>> \in DOMAIN q

(* --------------------------- the transport --------------------------- *)

\* What client.Do can hand back: no response and an error; a response whose
\* body is already closed together with an error (the redirect policy gave
\* up); or a response with a status and a body.
NetOutcomes ==
    {[res |-> "nil", status |-> 0, body |-> NoBody, err |-> ErrTransport],
     [res |-> "resp", status |-> StatusFound, body |-> NoBody, err |-> ErrRedirect]}
    \cup {[res |-> "resp", status |-> s, body |-> b, err |-> NoErr] :
            s \in Statuses, b \in Bodies}

Do ==
    /\ pc = "sent"
    /\ \E o \in NetOutcomes :
         /\ net' = o
         /\ closed' = (o.err = ErrRedirect)
    /\ pc' = "responded"
    /\ UNCHANGED <<env, call, sent, ret>>

(* ------------------- callService: after client.Do -------------------- *)

\* What callService hands to the operation: it panics when it reads the
\* status of a response that is not there, fails on 400, 429 and 401, fails
\* with the transport's error, and otherwise passes the response on.
Panicked == [outcome |-> "panic", ok |-> FALSE, err |-> NoErr]
Failed(e) == [outcome |-> "returned", ok |-> FALSE, err |-> e]
Passed == [outcome |-> "returned", ok |-> TRUE, err |-> NoErr]

callServiceNotFoundFails(n) ==
    IF n.res = "nil" THEN Panicked
    ELSE IF n.status = StatusBadRequest THEN Failed(ErrInvalidFormat)
    ELSE IF n.status = StatusTooManyRequests THEN Failed(ErrRateLimited)
    ELSE IF n.status = StatusUnauthorized THEN Failed(ErrUnauthorized)
    ELSE IF n.status = StatusNotFound THEN Failed("not found")
    ELSE IF n.err # NoErr THEN Failed(n.err)
    ELSE Passed

callServiceNoRateLimit(n) ==
    IF n.res = "nil" THEN Panicked
    ELSE IF n.status = StatusBadRequest THEN Failed(ErrInvalidFormat)
    ELSE IF n.status = StatusUnauthorized THEN Failed(ErrUnauthorized)
    ELSE IF n.err # NoErr THEN Failed(n.err)
    ELSE Passed

callService(n) ==
    IF n.res = "nil" THEN Panicked
    ELSE IF n.status = StatusBadRequest THEN Failed(ErrInvalidFormat)
    ELSE IF n.status = StatusTooManyRequests THEN Failed(ErrRateLimited)
    ELSE IF n.status = StatusUnauthorized THEN Failed(ErrUnauthorized)
    ELSE IF n.err # NoErr THEN Failed(n.err)
    ELSE Passed

(* --------------------------- json.Unmarshal -------------------------- *)

\* One member of a JSON object stored into a struct: a key that names no
\* field is skipped, a value of the field's type is stored, a value of
\* another type leaves the field alone and is an UnmarshalTypeError.
SetField(v, m, fields) ==
    IF m.key \in fields.str
    THEN IF m.val.kind = "string"
         THEN [v |-> [v EXCEPT ![m.key] = m.val.s], err |-> NoErr]
         ELSE [v |-> v, err |-> ErrType]
    ELSE IF m.key \in fields.int
    THEN IF m.val.kind = "number"
         THEN [v |-> [v EXCEPT ![m.key] = m.val.n], err |-> NoErr]
         ELSE [v |-> v, err |-> ErrType]
    ELSE [v |-> v, err |-> NoErr]

\* An object decoded into a struct: the members in order, decoding going on
\* after a type error, the first error kept.
RECURSIVE DecodeObject(_, _, _)
DecodeObject(members, v, fields) ==
    IF members = <<>> THEN [v |-> v, err |-> NoErr]
    ELSE LET h == SetField(v, Head(members), fields)
             r == DecodeObject(Tail(members), h.v, fields)
         IN [v |-> r.v, err |-> IF h.err # NoErr THEN h.err ELSE r.err]

DecodeArray(elems, zero, fields) ==
    [list |-> [i \in 1..Len(elems) |-> DecodeObject(elems[i], zero, fields).v],
     err |-> IF \E i \in 1..Len(elems) : DecodeObject(elems[i], zero, fields).err # NoErr
             THEN ErrType ELSE NoErr]

\* json.Unmarshal(body, &slice), the slice made empty before the call.
UnmarshalSlice(body, zero, fields) ==
    IF body.kind = "invalid" THEN [list |-> <<>>, err |-> ErrSyntax]
    ELSE IF body.kind = "null" THEN [list |-> <<>>, err |-> NoErr]
    ELSE IF body.kind = "array" THEN DecodeArray(body.elems, zero, fields)
    ELSE [list |-> <<>>, err |-> ErrType]

\* json.Unmarshal(body, &breach), breach a pointer to a fresh BreachModel:
\* the JSON literal null sets the pointer itself to nil.
UnmarshalPointer(body, zero, fields) ==
    IF body.kind = "invalid" THEN [isNil |-> FALSE, v |-> zero, err |-> ErrSyntax]
    ELSE IF body.kind = "null" THEN [isNil |-> TRUE, v |-> zero, err |-> NoErr]
    ELSE IF body.kind = "object"
    THEN [isNil |-> FALSE] @@ DecodeObject(body.members, zero, fields)
    ELSE [isNil |-> FALSE, v |-> zero, err |-> ErrType]

(* ---------------------- the operations, returning -------------------- *)

Panic == [outcome |-> "panic", list |-> <<>>, record |-> BreachModel, err |-> NoErr]
ReturnList(l, e) == [outcome |-> "returned", list |-> l, record |-> BreachModel, err |-> e]
ReturnRecord(r, e) == [outcome |-> "returned", list |-> <<>>, record |-> r, err |-> e]

\* BreachedAccount, Breaches and PasteAccount after callService: the value
\* returned (or the panic) and whether the body has been closed.  A nil
\* slice is the empty sequence.
ListResult(n, c, zero, fields) ==
    LET cs == callService(n) IN
    IF cs.outcome = "panic" THEN [ret |-> Panic, closed |-> c]
    ELSE IF cs.err # NoErr THEN [ret |-> ReturnList(<<>>, cs.err), closed |-> c]
    ELSE IF n.status = StatusNotFound THEN [ret |-> ReturnList(<<>>, NoErr), closed |-> c]
    ELSE IF n.body.kind = "readerr" THEN [ret |-> ReturnList(<<>>, ErrRead), closed |-> c]
    ELSE LET d == UnmarshalSlice(n.body, zero, fields) IN
         IF d.err # NoErr THEN [ret |-> ReturnList(<<>>, d.err), closed |-> TRUE]
         ELSE [ret |-> ReturnList(d.list, NoErr), closed |-> TRUE]

\* Breach after callService: *breach is returned on every path, and is a
\* nil dereference once Unmarshal has set breach to nil.
BreachResult(n, c) ==
    LET cs == callService(n) IN
    IF cs.outcome = "panic" THEN [ret |-> Panic, closed |-> c]
    ELSE IF cs.err # NoErr THEN [ret |-> ReturnRecord(BreachModel, cs.err), closed |-> c]
    ELSE IF n.status = StatusNotFound THEN [ret |-> ReturnRecord(BreachModel, NoErr), closed |-> c]
    ELSE IF n.body.kind = "readerr" THEN [ret |-> ReturnRecord(BreachModel, ErrRead), closed |-> c]
    ELSE LET d == UnmarshalPointer(n.body, BreachModel, BreachFields) IN
         IF d.err # NoErr THEN [ret |-> ReturnRecord(d.v, d.err), closed |-> TRUE]
         ELSE IF d.isNil THEN [ret |-> Panic, closed |-> TRUE]
         ELSE [ret |-> ReturnRecord(d.v, NoErr), closed |-> TRUE]

Finish(r) ==
    /\ ret' = r.ret
    /\ closed' = r.closed
    /\ pc' = "done"
    /\ UNCHANGED <<env, call, sent, net>>

(* ------------------------------ actions ------------------------------ *)

Enter(op, account, domainFilter, truncate, unverified) ==
    /\ pc = "idle"
    /\ call' = [op |-> op, account |-> account, domainFilter |-> domainFilter,
                truncate |-> truncate, unverified |-> unverified]

BreachedAccount(account, domainFilter, truncate, unverified) ==
    /\ Enter("breachedaccount", account, domainFilter, truncate, unverified)
    /\ callServiceSend("breachedaccount", account, domainFilter, truncate, unverified)

BreachedAccountReturn ==
    /\ pc = "responded" /\ call.op = "breachedaccount"
    /\ Finish(ListResult(net, closed, BreachModel, BreachFields))

\* Breaches takes domainFilter and passes callService the empty string.
Breaches(domainFilter) ==
    /\ Enter("breaches", "", domainFilter, FALSE, FALSE)
    /\ callServiceSend("breaches", "", <<>>, FALSE, FALSE)

BreachesReturn ==
    /\ pc = "responded" /\ call.op = "breaches"
    /\ Finish(ListResult(net, closed, BreachModel, BreachFields))

Breach(name) ==
    /\ Enter("breach", name, <<>>, FALSE, FALSE)
    /\ callServiceSend("breach", name, <<>>, FALSE, FALSE)

BreachReturn ==
    /\ pc = "responded" /\ call.op = "breach"
    /\ Finish(BreachResult(net, closed))

PasteAccount(email) ==
    /\ Enter("pasteaccount", email, <<>>, FALSE, FALSE)
    /\ callServiceSend("pasteaccount", email, <<>>, FALSE, FALSE)

PasteAccountReturn ==
    /\ pc = "responded" /\ call.op = "pasteaccount"
    /\ Finish(ListResult(net, closed, PasteModel, PasteFields))

\* The caller is done with what the call returned; the next call starts
\* from nothing but the environment.
Discard ==
    /\ pc = "done"
    /\ pc' = "idle"
    /\ call' = NoCall /\ sent' = <<>> /\ net' = NoNet /\ closed' = FALSE /\ ret' = NoRet
    /\ UNCHANGED env

\* HIBP_API_KEY is set between two calls.
Setenv(k) ==
    /\ pc = "idle"
    /\ k # env
    /\ env' = k
    /\ UNCHANGED <<pc, call, sent, net, closed, ret>>

Init ==
    /\ env \in ApiKeys
    /\ pc = "idle"
    /\ call = NoCall /\ sent = <<>> /\ net = NoNet /\ closed = FALSE /\ ret = NoRet

Next ==
    \/ \E a \in Accounts, f \in Filters, t \in BOOLEAN, u \in BOOLEAN :
         BreachedAccount(a, f, t, u)
    \/ \E f \in Filters : Breaches(f)
    \/ \E a \in Accounts : Breach(a)
    \/ \E a \in Accounts : PasteAccount(a)
    \/ Do
    \/ BreachedAccountReturn
    \/ BreachesReturn
    \/ BreachReturn
    \/ PasteAccountReturn
    \/ Discard
    \/ \E k \in ApiKeys : Setenv(k)

Spec == Init /\ [][Next]_vars

(* ------------------------------ claims ------------------------------- *)

Done == pc = "done"
Answered == Done /\ net.res = "resp" /\ net.err = NoErr
NoData == ret.list = <<>> /\ ret.record = BreachModel
Query == ParseQuery(sent[1].rawQuery)

\* The decoder's verdict on the body for the operation of the call.
DecodeErr ==
    IF call.op = "breach"
    THEN UnmarshalPointer(net.body, BreachModel, BreachFields).err
    ELSE IF call.op = "pasteaccount"
    THEN UnmarshalSlice(net.body, PasteModel, PasteFields).err
    ELSE UnmarshalSlice(net.body, BreachModel, BreachFields).err

\* C1: when the GET fails and no response is obtained, the operation
\* returns the transport's error and no result data.
C1_TransportErrorReturned ==
    (Done /\ net.res = "nil") =>
        (ret.outcome = "returned" /\ ret.err = net.err /\ NoData)

\* C2: whenever a response was obtained, its body has been closed by the
\* time the call is over, on every exit path.
C2_BodyClosedOnEveryPath ==
    (Done /\ net.res = "resp") => closed

\* C3: for BreachedAccount and Breaches, the query sent carries the
\* parameter domain with the filter as its one value when domainFilter is
\* not empty, and carries no parameter domain when it is empty.
C3_DomainFilterSent ==
    (pc # "idle" /\ call.op \in {"breachedaccount", "breaches"}) =>
        LET q == Query IN
        IF call.domainFilter # <<>>
        THEN Has(q, "domain") /\ q[<<"domain">>] = <<call.domainFilter>>
        ELSE ~Has(q, "domain")

\* C4: a 404 response makes every operation return the empty sequence (the
\* zero-value record for Breach) and a nil error.
C4_NotFoundIsEmpty ==
    (Answered /\ net.status = StatusNotFound) =>
        (ret.outcome = "returned" /\ ret.err = NoErr /\ NoData)

C4_Witness ==
    /\ Answered /\ net.status = StatusNotFound
    /\ call.op = "breach" /\ net.body.kind = "object" /\ net.body.members # <<>>
    /\ ret.outcome = "returned"

\* C5: a 400 response makes every operation return InvalidFormat, a 401
\* Unauthorized, a 429 RateLimited; the error returned for one of the three
\* statuses is not the error of another of them, nor nil, and no result
\* data comes with it.
StatusError(s) ==
    IF s = StatusBadRequest THEN ErrInvalidFormat
    ELSE IF s = StatusUnauthorized THEN ErrUnauthorized
    ELSE ErrRateLimited
ErrorStatuses == {StatusBadRequest, StatusUnauthorized, StatusTooManyRequests}
C5_StatusClassified ==
    (Answered /\ net.status \in ErrorStatuses) =>
        /\ ret.outcome = "returned"
        /\ ret.err = StatusError(net.status)
        /\ ret.err # NoErr
        /\ \A s \in ErrorStatuses \ {net.status} : ret.err # StatusError(s)
        /\ NoData

C5_Witness ==
    /\ Answered /\ net.status = StatusTooManyRequests
    /\ call.op = "pasteaccount" /\ net.body.kind = "array" /\ net.body.elems # <<>>
    /\ ret.err = ErrRateLimited

\* C6: a 200 response whose body the decoder rejects makes every operation
\* return a decode error and no partial result: the empty sequence, and the
\* zero-value record for Breach.
C6_DecodeErrorNoPartialResult ==
    (Answered /\ net.status = StatusOK /\ net.body.kind # "readerr"
       /\ DecodeErr # NoErr) =>
        (ret.outcome = "returned" /\ ret.err \in {ErrSyntax, ErrType} /\ NoData)

\* C7: a response whose status is none of 200, 400, 401, 404 and 429 is
\* returned as an error, whatever its body, never as a decoded result.
C7_OtherStatusIsError ==
    (Answered /\ net.status \notin {StatusOK, StatusBadRequest, StatusUnauthorized,
                                    StatusNotFound, StatusTooManyRequests}) =>
        (ret.outcome = "returned" /\ ret.err # NoErr)

\* C8: for BreachedAccount the query sent carries truncateResponse, with
\* the one value false, exactly when truncate is false, and carries
\* includeUnverified, with the one value true, exactly when unverified is
\* true.
C8_TruncateAndUnverifiedSent ==
    (pc # "idle" /\ call.op = "breachedaccount") =>
        LET q == Query IN
        /\ Has(q, "truncateResponse") <=> ~call.truncate
        /\ Has(q, "truncateResponse") => q[<<"truncateResponse">>] = <<(<<"false">>)>>
        /\ Has(q, "includeUnverified") <=> call.unverified
        /\ Has(q, "includeUnverified") => q[<<"includeUnverified">>] = <<(<<"true">>)>>

C8_Witness ==
    /\ pc = "sent" /\ call.op = "breachedaccount"
    /\ ~call.truncate /\ call.unverified /\ call.domainFilter = <<"&">>
    /\ Has(Query, "truncateResponse") /\ Has(Query, "includeUnverified")

\* C9: every call issues exactly one GET, whose hibp-api-key header is the
\* value HIBP_API_KEY has when the call is made, and then returns, on
\* every outcome.
C9_OneGetThenReturn ==
    [][/\ pc' = "sent" => (Len(sent') = 1 /\ sent'[1].apiKey = env)
       /\ pc' = "done" => (Len(sent') = 1 /\ ret'.outcome = "returned")]_vars

\* C10: for every 200 response whose body the decoder accepts, Breach
\* returns a record and a nil error; it never aborts.
C10_BreachAlwaysReturns ==
    (Answered /\ call.op = "breach" /\ net.status = StatusOK
       /\ net.body.kind # "readerr" /\ DecodeErr = NoErr) =>
        (ret.outcome = "returned" /\ ret.err = NoErr)

====
